---- MODULE Spec2Model ----
(***************************************************************************)
(* release-freeze-enforcer: one run of entrypoint.main().                  *)
(*                                                                         *)
(* The process environment (INPUT_* variables, GITHUB_* variables, the     *)
(* event payload file) and the wall clock are fixed when the run starts;   *)
(* main() then walks through input validation, window evaluation, the      *)
(* override checks, the decision, the twelve set_output calls, the summary *)
(* and sys.exit.                                                           *)
(*                                                                         *)
(* Time.  A datetime is [sec, usec, aware, off]: wall-clock seconds since  *)
(* Monday 00:00:00 of the modelled week, the microsecond field, whether    *)
(* it carries a tzinfo, and that tzinfo's UTC offset in seconds.  Zones    *)
(* are fixed-offset zones.                                                 *)
(*                                                                         *)
(* Text.  An f-string is the tuple of its pieces, "" is << >>.             *)
(***************************************************************************)
EXTENDS Integers, Sequences, FiniteSets, TLC

VARIABLES
    input,                \* os.environ: the INPUT_* variables
    github,               \* os.environ: GITHUB_EVENT_NAME/PATH/ACTOR, and the payload file
    clock,                \* what datetime.datetime.now(pytz.utc) returns
    pc,                   \* position of main()
    timezone,             \* main: timezone (a zone record), once parsed
    now_local,            \* main: now_local
    is_frozen, window_type, window_name, active_start, active_end, reason,
    overridden, override_reason_text,
    final_decision, exit_code,
    outputs,              \* the lines appended to GITHUB_OUTPUT, in order
    summary,              \* whether GITHUB_STEP_SUMMARY was appended to
    stdout,               \* the ::error:: / ::warning:: / ::notice:: lines printed
    exit_status,          \* the code given to sys.exit, -1 while running
    calls                 \* which evaluators have been entered (history)

vars == <<input, github, clock, pc, timezone, now_local, is_frozen, window_type,
          window_name, active_start, active_end, reason, overridden,
          override_reason_text, final_decision, exit_code, outputs, summary,
          stdout, exit_status, calls>>

---------------------------------------------------------------------------
(* Bounds of the explored inputs. *)

\* the clock is drawn from days 0..MaxDay (0 = Monday)
MaxDay == 6
\* ... at minutes 0..MaxMinute past midnight or past 01:00
MaxMinute == 1
\* ... with a microsecond field of 0..MaxUsec
MaxUsec == 1

---------------------------------------------------------------------------
(* Python values *)

\* os.environ.get(...) of a variable that is not set
None == "None"

\* a datetime that is None
NoDatetime == [none |-> TRUE]

\* truthiness of an optional string (None and "" are falsy)
Truthy(s) == s # None /\ s # ""

\* truthiness of an optional text given as a record (date, rule, integer text)
TruthyText(t) == t.k \notin {"none", "empty"}

\* get_input(name, default)
get_input(name, default) == IF input[name] = None THEN default ELSE input[name]

\* str.lower() on the behaviours explored
Lower(s) ==
    CASE s = "BLOCK" -> "block"
      [] s = "Warn"  -> "warn"
      [] OTHER       -> s

---------------------------------------------------------------------------
(* datetime / pytz *)

SecondsPerMinute == 60
SecondsPerDay == 24 * 60 * SecondsPerMinute

Naive(s, u) == [sec |-> s, usec |-> u, aware |-> FALSE, off |-> 0]

\* pytz.timezone(tz_str): the zones known to the model, by UTC offset
KnownZones == {"UTC", "Etc/GMT-1", "Etc/GMT+1"}
ZoneOffset(name) ==
    CASE name = "UTC"       -> 0
      [] name = "Etc/GMT-1" -> 60 * SecondsPerMinute
      [] name = "Etc/GMT+1" -> -(60 * SecondsPerMinute)

\* the absolute instant (UTC seconds) of an aware datetime
Instant(dt) == dt.sec - dt.off

\* dt.astimezone(zone)
astimezone(dt, zone) ==
    [sec |-> Instant(dt) + zone.off, usec |-> dt.usec, aware |-> TRUE, off |-> zone.off]

\* zone.localize(naive)
localize(zone, dt) == [dt EXCEPT !.aware = TRUE, !.off = zone.off]

\* dt.replace(tzinfo=None)
replace_tzinfo_none(dt) == [dt EXCEPT !.aware = FALSE, !.off = 0]

\* a <= b on two aware datetimes: by instant
AwareLE(a, b) ==
    \/ Instant(a) < Instant(b)
    \/ Instant(a) = Instant(b) /\ a.usec <= b.usec

\* a < b, a <= b on two naive datetimes: by wall clock
NaiveLT(a, b) == a.sec < b.sec \/ (a.sec = b.sec /\ a.usec < b.usec)
NaiveLE(a, b) == a.sec < b.sec \/ (a.sec = b.sec /\ a.usec <= b.usec)

\* dt + datetime.timedelta(minutes=m)
plus_minutes(dt, m) == [dt EXCEPT !.sec = dt.sec + m * SecondsPerMinute]

\* dt.weekday(): 0 = Monday ... 6 = Sunday
weekday(dt) == (dt.sec \div SecondsPerDay) % 7

\* dt.isoformat()
isoformat(dt) == <<"iso", dt.sec, dt.usec, dt.off>>

---------------------------------------------------------------------------
(* dateutil: parser.parse and rrule *)

\* parser.parse(text) of a date text that parses: naive unless the text
\* carries an offset
parse(text) ==
    [sec |-> text.sec, usec |-> 0, aware |-> text.aware, off |-> text.off]

\* rrulestr, had main() anchored a rule without DTSTART at midnight of the
\* current day instead of at now
rrulestr_AnchoredAtMidnight(text, default) ==
    LET midnight == [default EXCEPT !.sec = (@ \div SecondsPerDay) * SecondsPerDay]
        start == IF text.dtstart.k = "date" THEN parse(text.dtstart) ELSE midnight
        dtstart == [start EXCEPT !.usec = 0]
    IN [freq      |-> text.freq,
        interval  |-> text.interval,
        count     |-> text.count,
        byweekday |-> IF text.byweekday = {} /\ text.freq = "WEEKLY"
                      THEN {weekday(dtstart)} ELSE text.byweekday,
        dtstart   |-> dtstart]

\* rrule.rrulestr(text, dtstart=default): a DTSTART in the text wins over
\* the dtstart argument; rrule() drops dtstart's microseconds; a WEEKLY
\* rule without BYDAY recurs on dtstart's weekday
rrulestr(text, default) ==
    LET start == IF text.dtstart.k = "date" THEN parse(text.dtstart) ELSE default
        dtstart == [start EXCEPT !.usec = 0]
    IN [freq      |-> text.freq,
        interval  |-> text.interval,
        count     |-> text.count,
        byweekday |-> IF text.byweekday = {} /\ text.freq = "WEEKLY"
                      THEN {weekday(dtstart)} ELSE text.byweekday,
        dtstart   |-> dtstart]

\* the k-th instant the rule's iterator looks at, k = 0, 1, ...: HOURLY and
\* DAILY step by interval periods, WEEKLY looks at every day from dtstart
Candidate(rule, k) ==
    CASE rule.freq = "HOURLY" ->
           [rule.dtstart EXCEPT !.sec = @ + k * rule.interval * 60 * SecondsPerMinute]
      [] rule.freq = "DAILY" ->
           [rule.dtstart EXCEPT !.sec = @ + k * rule.interval * SecondsPerDay]
      [] rule.freq = "WEEKLY" ->
           [rule.dtstart EXCEPT !.sec = @ + k * SecondsPerDay]

\* whether the k-th instant is an occurrence: BYDAY filters it, and WEEKLY
\* keeps only every interval-th week counted from the Monday (WKST) of
\* dtstart's week
IsOccurrence(rule, k) ==
    /\ rule.byweekday # {} => weekday(Candidate(rule, k)) \in rule.byweekday
    /\ rule.freq = "WEEKLY" =>
          ((k + weekday(rule.dtstart)) \div 7) % rule.interval = 0

\* rrulebase.before(dt, inc): iterate the occurrences in order, stop at the
\* first one after dt (inc: strictly after) or when COUNT (0: none) have
\* been produced, and return the last one kept, None when there is none
RECURSIVE before_loop(_, _, _, _, _, _)
before_loop(rule, dt, inc, k, yielded, last) ==
    LET i == Candidate(rule, k) IN
    IF rule.count > 0 /\ yielded >= rule.count THEN last
    ELSE IF (IF inc THEN NaiveLT(dt, i) ELSE NaiveLE(dt, i)) THEN last
    ELSE IF IsOccurrence(rule, k)
         THEN before_loop(rule, dt, inc, k + 1, yielded + 1, i)
         ELSE before_loop(rule, dt, inc, k + 1, yielded, last)

before(rule, dt, inc) == before_loop(rule, dt, inc, 0, 0, NoDatetime)

---------------------------------------------------------------------------
(* The environments explored *)

\* wall-clock seconds of day d (0 = Monday), h:m:s
At(d, h, m, s) == d * SecondsPerDay + (h * 60 + m) * SecondsPerMinute + s

\* texts of the date, rule and integer inputs.  k is "none" (the variable is
\* not set), "empty" (""), "garbage" (a text the parser rejects) or the
\* kind of value the text denotes.
NoText == [k |-> "none"]
EmptyText == [k |-> "empty"]
Garbage == [k |-> "garbage"]
DateText(s) == [k |-> "date", sec |-> s, aware |-> FALSE, off |-> 0]
DateTextZ(s) == [k |-> "date", sec |-> s, aware |-> TRUE, off |-> 0]
IntText(n) == [k |-> "int", n |-> n]
RuleText(f, i, wd, c, start) ==
    [k |-> "rule", freq |-> f, interval |-> i, byweekday |-> wd, count |-> c,
     dtstart |-> start]

\* the instants the clock is drawn from (UTC)
ClockGrid ==
    {[sec |-> At(d, h, m, e), usec |-> u] :
        d \in 0..MaxDay, h \in {0, 1}, m \in 0..MaxMinute, e \in {0, 59},
        u \in 0..MaxUsec}

\* 01:00:00 on Tuesday, on the grid in UTC and in Etc/GMT-1
T0 == At(1, 1, 0, 0)
ClockNear == {c \in ClockGrid : c.sec \div SecondsPerDay = 1}

DefaultInput ==
    [environment |-> "production", behavior |-> None, timezone |-> None,
     freeze_start |-> NoText, freeze_end |-> NoText, rrule |-> NoText,
     duration_minutes |-> NoText, allow_override_label |-> None,
     allow_override_actor |-> None, fail_message |-> None, summary |-> None]

\* the event payload file: k is "missing" (no such file), "unreadable",
\* "malformed" (not JSON), "not_object" (a JSON array), "no_pull_request"
\* (an object without that key), "null_pull_request", "no_labels", or
\* "labels" with the label objects, each with or without a "name"
PayloadFile(k, labels) == [k |-> k, labels |-> labels]
Label(n) == [has_name |-> TRUE, name |-> n]
Nameless == [has_name |-> FALSE, name |-> ""]

DefaultGithub ==
    [event_name |-> "push", event_path |-> None,
     file |-> PayloadFile("missing", << >>), actor |-> "alice"]

Rules ==
    { RuleText("WEEKLY", 1, {5}, 0, NoText),            \* FREQ=WEEKLY;BYDAY=SA
      RuleText("DAILY", 1, {}, 0, NoText),              \* FREQ=DAILY
      RuleText("DAILY", 1, {}, 0, DateText(At(0, 1, 0, 0))),
      RuleText("DAILY", 2, {}, 0, DateText(At(0, 1, 0, 0))),
      RuleText("DAILY", 1, {}, 1, DateText(At(1, 1, 0, 0))),
      RuleText("WEEKLY", 1, {5, 6}, 0, DateText(At(0, 1, 0, 0))),
      RuleText("WEEKLY", 2, {}, 0, DateText(At(2, 0, 0, 59))),
      RuleText("HOURLY", 6, {1, 5}, 0, DateText(At(0, 0, 1, 0))),
      RuleText("DAILY", 1, {}, 0, DateText(At(MaxDay + 1, 2, 0, 0))),
      RuleText("DAILY", 1, {}, 0, DateTextZ(At(0, 1, 0, 0))) }

\* a fixed window around T0, in every mix of naive and zoned bounds
FixedEnvironments ==
    {[input |-> [DefaultInput EXCEPT !.timezone = tz, !.freeze_start = s,
                                     !.freeze_end = e],
      github |-> DefaultGithub, clock |-> c] :
        tz \in {None, "Etc/GMT-1", "Etc/GMT+1"},
        s \in {DateText(T0), DateTextZ(T0), Garbage},
        e \in {DateText(T0 + 60), DateTextZ(T0 + 60), DateText(T0 - 60), Garbage},
        c \in ClockNear}

\* a recurrence rule with a duration
RecurringEnvironments ==
    {[input |-> [DefaultInput EXCEPT !.timezone = tz, !.rrule = r,
                                     !.duration_minutes = d],
      github |-> DefaultGithub, clock |-> c] :
        tz \in {"UTC", "Etc/GMT-1"},
        r \in Rules,
        d \in {IntText(1), IntText(60), IntText(1440)},
        c \in ClockGrid}

\* a recurrence rule with a missing, malformed or non-positive duration, or
\* a rule text that does not parse
DurationEnvironments ==
    {[input |-> [DefaultInput EXCEPT !.rrule = r, !.duration_minutes = d],
      github |-> DefaultGithub, clock |-> c] :
        r \in {RuleText("DAILY", 1, {}, 0, NoText),
               RuleText("DAILY", 1, {}, 0, DateText(At(0, 1, 0, 0))),
               Garbage},
        d \in {NoText, EmptyText, Garbage, IntText(-1), IntText(0), IntText(1)},
        c \in ClockNear}

\* a recurrence rule together with fixed-window inputs
BothEnvironments ==
    {[input |-> [DefaultInput EXCEPT !.freeze_start = s, !.freeze_end = e,
                                     !.rrule = r, !.duration_minutes = d],
      github |-> DefaultGithub, clock |-> [sec |-> T0, usec |-> 0]] :
        s \in {NoText, EmptyText, DateText(T0), Garbage},
        e \in {NoText, EmptyText, DateText(T0 + 60), Garbage},
        r \in {RuleText("DAILY", 1, {}, 0, NoText), Garbage},
        d \in {NoText, IntText(1)}}

\* one bound of a fixed window only, with overrides that would match
HalfEnvironments ==
    {[input |-> [DefaultInput EXCEPT !.freeze_start = s, !.freeze_end = e,
                                     !.behavior = b,
                                     !.allow_override_actor = "alice"],
      github |-> DefaultGithub, clock |-> c] :
        s \in {NoText, EmptyText, DateText(T0 - 60), Garbage},
        e \in {NoText, EmptyText, DateText(T0 + 60), Garbage},
        b \in {"block", "warn", "allow"},
        c \in ClockNear}

\* a window that is active at T0 (fixed or recurring) or not, with every
\* mix of the override inputs, the event and its payload
OverrideEnvironments ==
    {[input |-> [DefaultInput EXCEPT !.freeze_start = w[1], !.freeze_end = w[2],
                                     !.rrule = w[3], !.duration_minutes = w[4],
                                     !.behavior = b,
                                     !.allow_override_label = l,
                                     !.allow_override_actor = a],
      github |-> [event_name |-> ev, event_path |-> f[1], file |-> f[2],
                  actor |-> who],
      clock |-> [sec |-> T0, usec |-> 0]] :
        w \in {<<DateText(T0), DateText(T0 + 60), NoText, NoText>>,
               <<NoText, NoText, RuleText("DAILY", 1, {}, 0, NoText), IntText(1)>>,
               <<DateText(T0 + 60), DateText(T0 + 120), NoText, NoText>>},
        b \in {"block", "warn", "allow"},
        l \in {None, "", "hotfix-override"},
        a \in {None, "", "alice"},
        ev \in {"push", "pull_request"},
        f \in {<<None, PayloadFile("labels", <<Label("hotfix-override")>>)>>,
               <<"/event.json", PayloadFile("missing", << >>)>>,
               <<"/event.json", PayloadFile("unreadable", << >>)>>,
               <<"/event.json", PayloadFile("malformed", << >>)>>,
               <<"/event.json", PayloadFile("not_object", << >>)>>,
               <<"/event.json", PayloadFile("no_pull_request", << >>)>>,
               <<"/event.json", PayloadFile("null_pull_request", << >>)>>,
               <<"/event.json", PayloadFile("no_labels", << >>)>>,
               <<"/event.json", PayloadFile("labels", << >>)>>,
               <<"/event.json", PayloadFile("labels", <<Label("hotfix-override"), Nameless>>)>>,
               <<"/event.json", PayloadFile("labels", <<Label("Hotfix-Override"), Label("bug")>>)>>,
               <<"/event.json", PayloadFile("labels", <<Label("bug"), Label("hotfix-override")>>)>>},
        who \in {None, "alice", "bob"}}

\* the remaining inputs: environment, timezone, behavior spellings, summary
OtherEnvironments ==
    {[input |-> [DefaultInput EXCEPT !.environment = n, !.timezone = tz,
                                     !.behavior = b, !.summary = sm,
                                     !.freeze_start = DateText(T0),
                                     !.freeze_end = DateText(T0 + 60)],
      github |-> DefaultGithub, clock |-> [sec |-> T0, usec |-> 1]] :
        n \in {None, "", "production"},
        tz \in {None, "UTC", "Mars/Phobos"},
        b \in {None, "", "BLOCK", "Warn", "audit"},
        sm \in {None, "false", "true"}}

Environments ==
    FixedEnvironments \cup RecurringEnvironments \cup DurationEnvironments
    \cup BothEnvironments \cup HalfEnvironments \cup OverrideEnvironments
    \cup OtherEnvironments

---------------------------------------------------------------------------
(* main() *)

\* the state at the entry of main()
Init ==
    /\ \E e \in Environments :
          /\ input = e.input
          /\ github = e.github
          /\ clock = e.clock
    /\ pc = "environment"
    /\ timezone = [none |-> TRUE]
    /\ now_local = NoDatetime
    /\ is_frozen = FALSE
    /\ window_type = "NONE"
    /\ window_name = ""
    /\ active_start = NoDatetime
    /\ active_end = NoDatetime
    /\ reason = <<"No active freeze window">>
    /\ overridden = FALSE
    /\ override_reason_text = << >>
    /\ final_decision = "ALLOW"
    /\ exit_code = 0
    /\ outputs = << >>
    /\ summary = FALSE
    /\ stdout = << >>
    /\ exit_status = -1
    /\ calls = {}

\* Fatal, had the error path called sys.exit() without a code
Fatal_ExitsZero(message) ==
    /\ stdout' = Append(stdout, message)
    /\ exit_status' = 0
    /\ pc' = "fatal"

\* print("::error::...") and sys.exit(1)
Fatal(message) ==
    /\ stdout' = Append(stdout, message)
    /\ exit_status' = 1
    /\ pc' = "fatal"

environ == <<input, github, clock>>
window == <<is_frozen, window_type, window_name, active_start, active_end>>
override == <<overridden, override_reason_text>>
decision == <<final_decision, exit_code>>

\* line 87, had it asked for both bounds of the fixed window
BothConfigured_NeedsBothBounds(freeze_start_str, freeze_end_str, rrule_str) ==
    (TruthyText(freeze_start_str) /\ TruthyText(freeze_end_str)) /\ TruthyText(rrule_str)

\* line 87: (freeze_start_str or freeze_end_str) and rrule_str
BothConfigured(freeze_start_str, freeze_end_str, rrule_str) ==
    (TruthyText(freeze_start_str) \/ TruthyText(freeze_end_str)) /\ TruthyText(rrule_str)

\* line 92, had it taken either bound for a fixed window
HasFixedWindow_EitherBound(freeze_start_str, freeze_end_str) ==
    TruthyText(freeze_start_str) \/ TruthyText(freeze_end_str)

\* line 92: freeze_start_str and freeze_end_str
HasFixedWindow(freeze_start_str, freeze_end_str) ==
    TruthyText(freeze_start_str) /\ TruthyText(freeze_end_str)

\* line 104, had the end of the window been excluded
InFixedWindow_EndExcluded(dt_start, now, dt_end) ==
    AwareLE(dt_start, now) /\ ~AwareLE(dt_end, now)

\* line 104: dt_start <= now_local <= dt_end
InFixedWindow(dt_start, now, dt_end) ==
    AwareLE(dt_start, now) /\ AwareLE(now, dt_end)

\* line 144: rule.before(now_naive, inc=True)
MostRecentStart(rule, now_naive) == before(rule, now_naive, TRUE)

\* lines 146-149, had the end of the window been included
InRecurringWindow_EndIncluded(last_start, now_naive, duration) ==
    /\ last_start # NoDatetime
    /\ NaiveLE(now_naive, plus_minutes(last_start, duration))

\* lines 146-149: last_start is not None and now_naive < window_end
InRecurringWindow(last_start, now_naive, duration) ==
    /\ last_start # NoDatetime
    /\ NaiveLT(now_naive, plus_minutes(last_start, duration))

\* line 186, had the actor check not looked at the label's result
ActorApplies_IgnoresLabel(allow_override_actor, already) ==
    Truthy(allow_override_actor)

\* line 186, had the actor check been the alternative of the label check
ActorApplies_UnlessLabelChecked(allow_override_actor, already) ==
    Truthy(allow_override_actor) /\ ~already /\ "label" \notin calls

\* line 186: allow_override_actor and not overridden
ActorApplies(allow_override_actor, already) ==
    Truthy(allow_override_actor) /\ ~already

\* lines 195-210, had warn failed the run like block
Decision_WarnFails(frozen, over, behavior) ==
    IF frozen /\ ~over
    THEN IF behavior = "block" THEN [final_decision |-> "BLOCK", exit_code |-> 1]
         ELSE IF behavior = "warn" THEN [final_decision |-> "WARN", exit_code |-> 1]
         ELSE [final_decision |-> "ALLOW", exit_code |-> 0]
    ELSE [final_decision |-> "ALLOW", exit_code |-> 0]

\* lines 195-210: the decision and the exit code
Decision(frozen, over, behavior) ==
    IF frozen /\ ~over
    THEN IF behavior = "block" THEN [final_decision |-> "BLOCK", exit_code |-> 1]
         ELSE IF behavior = "warn" THEN [final_decision |-> "WARN", exit_code |-> 0]
         ELSE [final_decision |-> "ALLOW", exit_code |-> 0]
    ELSE [final_decision |-> "ALLOW", exit_code |-> 0]

\* lines 56-59: the environment input is required
CheckEnvironment ==
    /\ pc = "environment"
    /\ IF ~Truthy(input.environment)
       THEN Fatal(<<"::error::Input 'environment' is required.">>)
       ELSE /\ pc' = "timezone"
            /\ UNCHANGED <<stdout, exit_status>>
    /\ UNCHANGED <<environ, timezone, now_local, window, reason, override,
                   decision, outputs, summary, calls>>

\* lines 61-76 with parse_timezone: the zone, then the clock is read
ParseTimezone ==
    /\ pc = "timezone"
    /\ LET tz_str == get_input("timezone", "UTC")
           zone == [name |-> tz_str, off |-> ZoneOffset(tz_str)]
           now_utc == [sec |-> clock.sec, usec |-> clock.usec, aware |-> TRUE, off |-> 0]
       IN IF tz_str \notin KnownZones
          THEN /\ Fatal(<<"::error::Unknown timezone: ", tz_str>>)
               /\ UNCHANGED <<timezone, now_local>>
          ELSE /\ timezone' = zone
               /\ now_local' = astimezone(now_utc, zone)
               /\ pc' = "validate"
               /\ UNCHANGED <<stdout, exit_status>>
    /\ UNCHANGED <<environ, window, reason, override, decision, outputs,
                   summary, calls>>

\* lines 86-89: a fixed window and a recurrence rule exclude each other
ValidateExclusive ==
    /\ pc = "validate"
    /\ IF BothConfigured(input.freeze_start, input.freeze_end, input.rrule)
       THEN Fatal(<<"::error::Cannot specify both fixed window (freeze_start/end) and recurring window (rrule).">>)
       ELSE /\ pc' = "window"
            /\ UNCHANGED <<stdout, exit_status>>
    /\ UNCHANGED <<environ, timezone, now_local, window, reason, override,
                   decision, outputs, summary, calls>>

\* lines 92-113: the fixed window, both bounds inclusive
FixedWindow ==
    /\ pc = "window"
    /\ HasFixedWindow(input.freeze_start, input.freeze_end)
    /\ calls' = calls \cup {"parser.parse"}
    /\ IF input.freeze_start.k # "date" \/ input.freeze_end.k # "date"   \* parser.parse raises
       THEN /\ Fatal(<<"::error::Failed to parse fixed window dates: ", "ParserError">>)
            /\ UNCHANGED <<window, reason>>
       ELSE LET start == parse(input.freeze_start)
                end == parse(input.freeze_end)
                dt_start == IF ~start.aware THEN localize(timezone, start) ELSE start
                dt_end == IF ~end.aware THEN localize(timezone, end) ELSE end
            IN /\ IF InFixedWindow(dt_start, now_local, dt_end)
                  THEN /\ is_frozen' = TRUE
                       /\ window_type' = "FIXED"
                       /\ window_name' = "Fixed Freeze Window"
                       /\ active_start' = dt_start
                       /\ active_end' = dt_end
                       /\ reason' = <<"Current time is within fixed freeze window">>
                  ELSE UNCHANGED <<window, reason>>
               /\ pc' = "override"
               /\ UNCHANGED <<stdout, exit_status>>
    /\ UNCHANGED <<environ, timezone, now_local, override, decision, outputs, summary>>

\* lines 116-160: the recurring window, from the most recent occurrence at
\* or before now up to, and not including, its end
RecurringWindow ==
    /\ pc = "window"
    /\ ~HasFixedWindow(input.freeze_start, input.freeze_end)
    /\ TruthyText(input.rrule)
    /\ LET duration_mins == input.duration_minutes
           now_naive == replace_tzinfo_none(now_local)
       IN
       IF ~TruthyText(duration_mins)
       THEN /\ Fatal(<<"::error::Input 'duration_minutes' is required when using 'rrule'.">>)
            /\ UNCHANGED <<window, reason, calls>>
       ELSE IF duration_mins.k = "garbage"           \* int() raises
       THEN /\ Fatal(<<"::error::Failed to process rrule: ", "ValueError">>)
            /\ UNCHANGED <<window, reason, calls>>
       ELSE IF input.rrule.k = "garbage"             \* rrulestr raises
       THEN /\ Fatal(<<"::error::Failed to process rrule: ", "ValueError">>)
            /\ calls' = calls \cup {"rrulestr"}
            /\ UNCHANGED <<window, reason>>
       ELSE LET duration == duration_mins.n
                rule == rrulestr(input.rrule, now_naive)
            IN
            IF rule.dtstart.aware                    \* naive now against a zoned occurrence
            THEN /\ Fatal(<<"::error::Failed to process rrule: ", "TypeError">>)
                 /\ calls' = calls \cup {"rrulestr", "rule.before"}
                 /\ UNCHANGED <<window, reason>>
            ELSE LET last_start == MostRecentStart(rule, now_naive)
                     window_end == plus_minutes(last_start, duration)
                 IN /\ IF InRecurringWindow(last_start, now_naive, duration)
                       THEN /\ is_frozen' = TRUE
                            /\ window_type' = "RRULE"
                            /\ window_name' = "Recurring Freeze Window"
                            /\ active_start' = localize(timezone, last_start)
                            /\ active_end' = localize(timezone, window_end)
                            /\ reason' = <<"Current time is within recurring freeze window">>
                       ELSE UNCHANGED <<window, reason>>
                    /\ calls' = calls \cup {"rrulestr", "rule.before"}
                    /\ pc' = "override"
                    /\ UNCHANGED <<stdout, exit_status>>
    /\ UNCHANGED <<environ, timezone, now_local, override, decision, outputs, summary>>

\* lines 92 and 116 both false: no window is evaluated
NoWindow ==
    /\ pc = "window"
    /\ ~HasFixedWindow(input.freeze_start, input.freeze_end)
    /\ ~TruthyText(input.rrule)
    /\ pc' = "override"
    /\ UNCHANGED <<environ, timezone, now_local, window, reason, override,
                   decision, outputs, summary, stdout, exit_status, calls>>

\* line 166 false: overrides are looked at only when frozen
SkipOverride ==
    /\ pc = "override"
    /\ ~is_frozen
    /\ pc' = "decision"
    /\ UNCHANGED <<environ, timezone, now_local, window, reason, override,
                   decision, outputs, summary, stdout, exit_status, calls>>

\* json.load and line 175: the names of the pull request's labels; raises
\* on a file that cannot be read or parsed, a payload that is no object, a
\* pull_request that is null, a label without a name
PayloadRaises(file) ==
    \/ file.k \in {"unreadable", "malformed", "not_object", "null_pull_request"}
    \/ file.k = "labels" /\ \E i \in 1..Len(file.labels) : ~file.labels[i].has_name

pr_labels(file) ==
    IF file.k = "labels"
    THEN [i \in 1..Len(file.labels) |-> file.labels[i].name]
    ELSE << >>

\* lines 166-183: the label override
LabelOverride ==
    /\ pc = "override"
    /\ is_frozen
    /\ LET allow_override_label == input.allow_override_label
           event_path == github.event_path
       IN
       IF Truthy(allow_override_label) /\ github.event_name = "pull_request"
       THEN /\ calls' = calls \cup {"label"}
            /\ IF Truthy(event_path) /\ github.file.k # "missing"
               THEN IF PayloadRaises(github.file)
                    THEN /\ stdout' = Append(stdout, <<"::warning::Failed to read event payload for label check: ", github.file.k>>)
                         /\ UNCHANGED override
                    ELSE IF \E i \in 1..Len(pr_labels(github.file)) :
                               pr_labels(github.file)[i] = allow_override_label
                    THEN /\ overridden' = TRUE
                         /\ override_reason_text' = <<"PR label '", allow_override_label, "' matched">>
                         /\ stdout' = Append(stdout, <<"Override applied: ", "PR label '", allow_override_label, "' matched">>)
                    ELSE UNCHANGED <<override, stdout>>
               ELSE /\ stdout' = Append(stdout, <<"::warning::GITHUB_EVENT_PATH not found, skipping label check.">>)
                    /\ UNCHANGED override
       ELSE UNCHANGED <<override, stdout, calls>>
    /\ pc' = "actor"
    /\ UNCHANGED <<environ, timezone, now_local, window, reason, decision,
                   outputs, summary, exit_status>>

\* lines 185-192: the actor override, unless the label already matched
ActorOverride ==
    /\ pc = "actor"
    /\ LET allow_override_actor == input.allow_override_actor
           actor == github.actor
       IN
       IF ActorApplies(allow_override_actor, overridden)
       THEN /\ calls' = calls \cup {"actor"}
            /\ IF actor = allow_override_actor
               THEN /\ overridden' = TRUE
                    /\ override_reason_text' = <<"Actor '", actor, "' is allowed to override">>
                    /\ stdout' = Append(stdout, <<"Override applied: ", "Actor '", actor, "' is allowed to override">>)
               ELSE UNCHANGED <<override, stdout>>
       ELSE UNCHANGED <<override, stdout, calls>>
    /\ pc' = "decision"
    /\ UNCHANGED <<environ, timezone, now_local, window, reason, decision,
                   outputs, summary, exit_status>>

\* lines 194-211: the decision table
Decide ==
    /\ pc = "decision"
    /\ LET behavior == Lower(get_input("behavior", "block"))
           fail_msg == get_input("fail_message", "Release freeze is active. Deployment prevented.")
       IN
       /\ final_decision' = Decision(is_frozen, overridden, behavior).final_decision
       /\ exit_code' = Decision(is_frozen, overridden, behavior).exit_code
       /\ stdout' = IF is_frozen /\ ~overridden /\ behavior = "warn"
                    THEN Append(stdout, <<"::warning::", fail_msg>>)
                    ELSE IF is_frozen /\ ~overridden /\ behavior # "block"
                    THEN Append(stdout, <<"::notice::Freeze active but behavior is 'allow'.">>)
                    ELSE stdout
       /\ reason' = IF is_frozen /\ overridden
                    THEN <<"Frozen but overridden: ">> \o override_reason_text
                    ELSE reason
    /\ calls' = calls \cup {"decision"}
    /\ pc' = "output"
    /\ UNCHANGED <<environ, timezone, now_local, window, override, outputs,
                   summary, exit_status>>

\* lines 214-225: the twelve output lines, in order
OutputNames ==
    <<"is_frozen", "decision", "environment", "now_local", "now_utc",
      "window_type", "window_name", "reason", "freeze_start", "freeze_end",
      "overridden", "override_reason">>

OutputValue(name) ==
    CASE name = "is_frozen"       -> IF is_frozen THEN "true" ELSE "false"
      [] name = "decision"        -> final_decision
      [] name = "environment"     -> input.environment
      [] name = "now_local"       -> isoformat(now_local)
      [] name = "now_utc"         -> isoformat([sec |-> clock.sec, usec |-> clock.usec, aware |-> TRUE, off |-> 0])
      [] name = "window_type"     -> window_type
      [] name = "window_name"     -> window_name
      [] name = "reason"          -> reason
      [] name = "freeze_start"    -> IF active_start # NoDatetime THEN isoformat(active_start) ELSE ""
      [] name = "freeze_end"      -> IF active_end # NoDatetime THEN isoformat(active_end) ELSE ""
      [] name = "overridden"      -> IF overridden THEN "true" ELSE "false"
      [] name = "override_reason" -> override_reason_text

\* one set_output call
WriteOutput ==
    /\ pc = "output"
    /\ LET name == OutputNames[Len(outputs) + 1]
       IN outputs' = Append(outputs, [name |-> name, value |-> OutputValue(name)])
    /\ pc' = IF Len(outputs) + 1 = Len(OutputNames) THEN "summary" ELSE "output"
    /\ UNCHANGED <<environ, timezone, now_local, window, reason, override,
                   decision, summary, stdout, exit_status, calls>>

\* lines 227-240 with write_summary: appended unless summary is not "true"
WriteSummary ==
    /\ pc = "summary"
    /\ summary' = (Lower(get_input("summary", "true")) = "true")
    /\ pc' = "exit"
    /\ UNCHANGED <<environ, timezone, now_local, window, reason, override,
                   decision, outputs, stdout, exit_status, calls>>

\* lines 242-245: sys.exit(exit_code)
Exit ==
    /\ pc = "exit"
    /\ stdout' = IF exit_code # 0
                 THEN Append(stdout, <<"::error::", get_input("fail_message", "Release freeze is active. Deployment prevented.")>>)
                 ELSE stdout
    /\ exit_status' = exit_code
    /\ pc' = "done"
    /\ UNCHANGED <<environ, timezone, now_local, window, reason, override,
                   decision, outputs, summary, calls>>

Next ==
    \/ CheckEnvironment
    \/ ParseTimezone
    \/ ValidateExclusive
    \/ FixedWindow
    \/ RecurringWindow
    \/ NoWindow
    \/ SkipOverride
    \/ LabelOverride
    \/ ActorOverride
    \/ Decide
    \/ WriteOutput
    \/ WriteSummary
    \/ Exit

Spec == Init /\ [][Next]_vars

---------------------------------------------------------------------------
(* Properties *)

\* the positions of main() after the window evaluation, after the override
\* checks, and after the decision
AfterWindow == {"override", "actor", "decision", "output", "summary", "exit", "done"}
AfterOverride == {"decision", "output", "summary", "exit", "done"}
AfterDecision == {"output", "summary", "exit", "done"}

\* main() has not ended and has a next step
Running == pc \notin {"done", "fatal"}
CanStep == ENABLED Next

\* the value written for an output key
Output(name) ==
    LET i == CHOOSE i \in 1..Len(outputs) : outputs[i].name = name
    IN outputs[i].value

\* the behavior the run acts on
Behavior == Lower(get_input("behavior", "block"))

\* section 4.4's table, row by row
TableDecision(frozen, over, behavior) ==
    CASE ~frozen                                 -> "ALLOW"
      [] frozen /\ over                          -> "ALLOW"
      [] frozen /\ ~over /\ behavior = "block"   -> "BLOCK"
      [] frozen /\ ~over /\ behavior = "warn"    -> "WARN"
      [] frozen /\ ~over /\ behavior = "allow"   -> "ALLOW"

TableExit(frozen, over, behavior) ==
    IF frozen /\ ~over /\ behavior = "block" THEN 1 ELSE 0

\* C1: a completed run with behavior block, warn or allow ends with the
\* decision and the exit code of the decision table for its (is_frozen,
\* overridden, behavior), writes that decision, and exits 1 exactly when
\* the decision is BLOCK.
C1_DecisionTable ==
    (pc = "done" /\ Behavior \in {"block", "warn", "allow"}) =>
        /\ final_decision = TableDecision(is_frozen, overridden, Behavior)
        /\ exit_status = TableExit(is_frozen, overridden, Behavior)
        /\ Output("decision") = final_decision
        /\ Output("is_frozen") = (IF is_frozen THEN "true" ELSE "false")
        /\ Output("overridden") = (IF overridden THEN "true" ELSE "false")
        /\ (exit_status = 1 <=> final_decision = "BLOCK")

C1_Witness ==
    /\ pc = "done" /\ is_frozen /\ ~overridden /\ Behavior = "warn"
    /\ final_decision = "WARN" /\ exit_status = 0

\* the instant (UTC seconds) a bound of the fixed window denotes: a naive
\* bound is wall-clock time of the configured zone
ConfiguredOffset == ZoneOffset(get_input("timezone", "UTC"))
BoundInstant(text) ==
    IF text.aware THEN text.sec - text.off ELSE text.sec - ConfiguredOffset

\* t <= bound and bound <= t for the clock's instant t, to the microsecond
ClockAtOrAfter(bound) ==
    clock.sec > bound \/ (clock.sec = bound /\ clock.usec >= 0)
ClockAtOrBefore(bound) ==
    clock.sec < bound \/ (clock.sec = bound /\ clock.usec = 0)

FixedConfigured ==
    /\ input.freeze_start.k = "date" /\ input.freeze_end.k = "date"
    /\ ~TruthyText(input.rrule)

\* C2: with both bounds of a fixed window supplied, a run evaluated at
\* instant t reports is_frozen = true and window_type = FIXED exactly when
\* start <= t <= end, both bounds included, and is_frozen = false before
\* start and after end.
C2_FixedInclusive ==
    (pc \in AfterWindow /\ FixedConfigured) =>
        /\ is_frozen <=> (/\ ClockAtOrAfter(BoundInstant(input.freeze_start))
                          /\ ClockAtOrBefore(BoundInstant(input.freeze_end)))
        /\ is_frozen => window_type = "FIXED"
        /\ pc = "done" =>
              /\ Output("is_frozen") = (IF is_frozen THEN "true" ELSE "false")
              /\ Output("window_type") = (IF is_frozen THEN "FIXED" ELSE "NONE")

\* the run is evaluated exactly at the end of a window given by naive
\* bounds in a zone other than UTC, and is frozen
C2_Witness ==
    /\ pc = "done" /\ FixedConfigured /\ is_frozen
    /\ ~input.freeze_end.aware /\ ConfiguredOffset # 0
    /\ clock.sec = BoundInstant(input.freeze_end) /\ clock.usec = 0

\* the wall clock of the configured zone at the evaluated instant, and the
\* same cut to whole seconds
NowNaive == Naive(clock.sec + ConfiguredOffset, clock.usec)
NowSeconds == Naive(clock.sec + ConfiguredOffset, 0)

\* a recurrence rule with an integer duration and no fixed-window input,
\* whose occurrences are naive like the evaluated wall clock
RecurringConfigured ==
    /\ input.rrule.k = "rule"
    /\ input.duration_minutes.k = "int"
    /\ ~TruthyText(input.freeze_start) /\ ~TruthyText(input.freeze_end)
    /\ ~(input.rrule.dtstart.k = "date" /\ input.rrule.dtstart.aware)

ConfiguredRule == rrulestr(input.rrule, NowNaive)
Duration == input.duration_minutes.n

\* the occurrences of the configured rule at or before the evaluated
\* instant: the k-th instant of the rule is one when it matches the rule's
\* pattern, fewer than COUNT occurrences precede it, and it is not after now
Horizon == 4 * (MaxDay + 3)
OccurrenceAt(k) ==
    /\ IsOccurrence(ConfiguredRule, k)
    /\ ConfiguredRule.count > 0 =>
          Cardinality({j \in 0..(k - 1) : IsOccurrence(ConfiguredRule, j)}) < ConfiguredRule.count
PastOccurrences ==
    {o \in {Candidate(ConfiguredRule, k).sec : k \in {j \in 0..Horizon : OccurrenceAt(j)}} :
        o <= NowNaive.sec}
MostRecent(O) == O \in PastOccurrences /\ \A P \in PastOccurrences : P <= O

\* C3: with a recurrence rule of duration D minutes, and O the most recent
\* occurrence at or before the evaluated instant t, the run reports
\* is_frozen = true (window_type RRULE) exactly when O <= t < O + D: not at
\* t = O + D, and not when there is no occurrence at or before t.  A
\* weekly-on-Saturday rule of 1440 minutes is frozen all Saturday and on
\* no other day.
C3_RecurringHalfOpen ==
    (pc = "done" /\ RecurringConfigured) =>
        /\ is_frozen <=> \E O \in PastOccurrences :
                            /\ MostRecent(O)
                            /\ NowNaive.sec < O + Duration * SecondsPerMinute
        /\ is_frozen => window_type = "RRULE"
        /\ (input.rrule = RuleText("WEEKLY", 1, {5}, 0, NoText) /\ Duration = 1440) =>
              (is_frozen <=> weekday(NowNaive) = 5)
        /\ pc = "done" =>
              /\ Output("is_frozen") = (IF is_frozen THEN "true" ELSE "false")
              /\ Output("window_type") = (IF is_frozen THEN "RRULE" ELSE "NONE")

\* a run evaluated exactly at O + D, for an occurrence O earlier than the
\* evaluated instant, is not frozen
C3_Witness ==
    /\ pc = "done" /\ RecurringConfigured /\ ~is_frozen /\ Duration > 0
    /\ \E O \in PastOccurrences :
          /\ MostRecent(O)
          /\ NowNaive = Naive(O + Duration * SecondsPerMinute, 0)

\* C4: whenever a recurrence rule is supplied together with freeze_start,
\* freeze_end or both, the run never gets past the validation: no date is
\* parsed, no rule evaluated, no override checked, no decision taken, no
\* output written; it stops nowhere but in the fatal error, with exit code 1.
C4_MutuallyExclusive ==
    (TruthyText(input.rrule)
        /\ (TruthyText(input.freeze_start) \/ TruthyText(input.freeze_end))) =>
        /\ pc \in {"environment", "timezone", "validate", "fatal"}
        /\ calls = {}
        /\ outputs = << >>
        /\ ~is_frozen /\ window_type = "NONE"
        /\ pc = "fatal" => exit_status = 1
        /\ pc # "fatal" => exit_status = -1 /\ CanStep

\* only freeze_end and a rule are supplied, and the run was stopped by the
\* validation
C4_Witness ==
    /\ TruthyText(input.rrule) /\ ~TruthyText(input.freeze_start)
    /\ TruthyText(input.freeze_end)
    /\ pc = "fatal" /\ exit_status = 1
    /\ stdout = <<(<<"::error::Cannot specify both fixed window (freeze_start/end) and recurring window (rrule).">>)>>

\* the configured override label is on the pull request of a readable
\* pull_request payload
LabelMatches ==
    /\ Truthy(input.allow_override_label)
    /\ github.event_name = "pull_request"
    /\ Truthy(github.event_path)
    /\ github.file.k = "labels"
    /\ \A i \in 1..Len(github.file.labels) : github.file.labels[i].has_name
    /\ \E i \in 1..Len(github.file.labels) :
          github.file.labels[i].name = input.allow_override_label

\* the configured override actor is the triggering actor
ActorMatches ==
    /\ Truthy(input.allow_override_actor)
    /\ github.actor = input.allow_override_actor

LabelReason == <<"PR label '", input.allow_override_label, "' matched">>
ActorReason == <<"Actor '", input.allow_override_actor, "' is allowed to override">>

\* C5: the label is checked before the actor and the first match wins: in
\* a frozen run where the label and the actor both match, the run is
\* overridden with the label reason, and the actor check is not applied.
C5_LabelBeforeActor ==
    /\ "label" \in calls => pc \in AfterOverride \cup {"actor"}
    /\ "actor" \in calls => pc \in AfterOverride
    /\ (pc \in AfterOverride /\ is_frozen /\ LabelMatches /\ ActorMatches) =>
          /\ overridden
          /\ override_reason_text = LabelReason
          /\ override_reason_text # ActorReason
          /\ "label" \in calls /\ "actor" \notin calls
          /\ pc = "done" =>
                /\ Output("override_reason") = LabelReason
                /\ Output("overridden") = "true"

C5_Witness ==
    /\ pc = "done" /\ is_frozen /\ LabelMatches /\ ActorMatches
    /\ overridden /\ Output("override_reason") = LabelReason

\* the fatal input errors of section 7
MissingEnvironment == ~Truthy(input.environment)
UnknownTimezone == get_input("timezone", "UTC") \notin KnownZones
BothWindows ==
    TruthyText(input.rrule)
        /\ (TruthyText(input.freeze_start) \/ TruthyText(input.freeze_end))
RuleWithoutDuration ==
    TruthyText(input.rrule) /\ ~TruthyText(input.duration_minutes)
UnparseableDates ==
    /\ TruthyText(input.freeze_start) /\ TruthyText(input.freeze_end)
    /\ input.freeze_start.k = "garbage" \/ input.freeze_end.k = "garbage"
UnparseableRule == input.rrule.k = "garbage"
FatalInput ==
    \/ MissingEnvironment \/ UnknownTimezone \/ BothWindows
    \/ RuleWithoutDuration \/ UnparseableDates \/ UnparseableRule

\* C6: a run with a fatal input error never gets past the window
\* evaluation, stops nowhere before its fatal error, and writes no output
\* key; a run that has ended in a fatal
\* error has exited non-zero with nothing written (no output key, no
\* summary); and once an output key is written no fatal error follows.
C6_FatalWritesNothing ==
    /\ FatalInput =>
          /\ pc \in {"environment", "timezone", "validate", "window", "fatal"}
          /\ pc # "fatal" => CanStep
          /\ outputs = << >>
    /\ pc = "fatal" =>
          /\ exit_status # 0 /\ exit_status # -1
          /\ outputs = << >> /\ ~summary
    /\ outputs # << >> => pc \in AfterDecision

\* a run stopped by an unparseable recurrence rule
C6_Witness ==
    /\ pc = "fatal" /\ UnparseableRule /\ ~MissingEnvironment /\ ~UnknownTimezone
    /\ ~BothWindows /\ ~RuleWithoutDuration
    /\ exit_status = 1 /\ outputs = << >>

\* C7: with rrule supplied, a duration_minutes that is absent or a
\* non-positive integer stops the run before the rule is evaluated, and
\* the run never reaches a decision.
C7_PositiveDurationRequired ==
    (TruthyText(input.rrule)
        /\ (\/ ~TruthyText(input.duration_minutes)
            \/ (input.duration_minutes.k = "int" /\ input.duration_minutes.n <= 0))) =>
        /\ pc \notin AfterWindow
        /\ "rule.before" \notin calls

\* the payload of the pull_request event cannot be read, cannot be parsed
\* or lacks the label structure
PayloadFails ==
    \/ ~Truthy(github.event_path)
    \/ github.file.k \in {"missing", "unreadable", "malformed", "not_object",
                          "no_pull_request", "null_pull_request", "no_labels"}
    \/ github.file.k = "labels"
          /\ \E i \in 1..Len(github.file.labels) : ~github.file.labels[i].has_name

\* C8: in a frozen run with an override label configured on a pull_request
\* event whose payload fails, the run does not abort (it runs on to its
\* normal end), the label yields no
\* override, the actor override is still evaluated, and the decision and
\* exit code are those of the decision table.
C8_PayloadFailureAbsorbed ==
    (is_frozen /\ Truthy(input.allow_override_label)
        /\ github.event_name = "pull_request" /\ PayloadFails) =>
        /\ pc # "fatal"
        /\ Running => CanStep
        /\ override_reason_text # LabelReason
        /\ pc = "actor" => ~overridden
        /\ pc \in AfterOverride =>
              /\ Truthy(input.allow_override_actor) => "actor" \in calls
              /\ overridden <=> ActorMatches
              /\ overridden => override_reason_text = ActorReason
        /\ pc \in AfterDecision =>
              /\ final_decision = TableDecision(is_frozen, overridden, Behavior)
              /\ exit_code = TableExit(is_frozen, overridden, Behavior)
        /\ pc = "done" => exit_status = exit_code

\* a malformed payload, and the actor override applied after it
C8_Witness ==
    /\ pc = "done" /\ is_frozen /\ Truthy(input.allow_override_label)
    /\ github.event_name = "pull_request" /\ Truthy(github.event_path)
    /\ github.file.k = "malformed"
    /\ overridden /\ override_reason_text = ActorReason
    /\ final_decision = "ALLOW" /\ exit_status = 0

\* a recurrence rule without a start of its own, with a positive duration
UnanchoredRule ==
    /\ RecurringConfigured
    /\ input.rrule.dtstart.k # "date"
    /\ Duration > 0

\* whether an instant matches the pattern of the rule text: its weekday is
\* one of BYDAY, when BYDAY is given
MatchesPattern(dt) ==
    input.rrule.byweekday # {} => weekday(dt) \in input.rrule.byweekday

\* C9 as stated: for a rule without a start of its own, is_frozen depends
\* only on whether now matches the rule's pattern, and a reported active
\* window starts at now itself.
C9_AnchoredAtNow ==
    (pc = "done" /\ UnanchoredRule) =>
        /\ is_frozen <=> MatchesPattern(NowNaive)
        /\ is_frozen => /\ active_start = now_local
                        /\ replace_tzinfo_none(active_start) = NowNaive

\* C9, amended: for a rule without a start of its own the rule is anchored
\* at now cut to whole seconds, which is the only occurrence at or before
\* now; is_frozen is the same for every positive duration (it depends only
\* on whether that instant matches the rule's pattern), and a reported
\* active window starts at now cut to whole seconds, never earlier.
C9_AnchoredAtNowSeconds ==
    (pc = "done" /\ UnanchoredRule) =>
        /\ PastOccurrences \subseteq {NowSeconds.sec}
        /\ is_frozen <=> MatchesPattern(NowSeconds)
        /\ is_frozen =>
              /\ active_start = [now_local EXCEPT !.usec = 0]
              /\ replace_tzinfo_none(active_start) = NowSeconds
              /\ active_end = plus_minutes(active_start, Duration)

\* a frozen run of such a rule whose clock has a sub-second part
C9_Witness ==
    /\ pc = "done" /\ UnanchoredRule /\ is_frozen
    /\ clock.usec > 0 /\ Duration = 1440
    /\ replace_tzinfo_none(active_start) = NowSeconds

\* exactly one bound of the fixed window is supplied, and no rule
HalfFixedWindow ==
    /\ TruthyText(input.freeze_start) # TruthyText(input.freeze_end)
    /\ ~TruthyText(input.rrule)

\* C10: with exactly one of freeze_start / freeze_end supplied and no
\* rrule, the supplied bound is never parsed and is no fatal error even
\* when malformed; the run runs on to its end and completes with
\* is_frozen = false, window_type
\* NONE, overridden = false, decision ALLOW and exit code 0, whatever the
\* instant and the behavior.
C10_HalfWindowIsNoWindow ==
    (HalfFixedWindow /\ ~MissingEnvironment /\ ~UnknownTimezone) =>
        /\ pc # "fatal"
        /\ Running => CanStep
        /\ "parser.parse" \notin calls /\ "rrulestr" \notin calls
        /\ ~is_frozen /\ window_type = "NONE" /\ ~overridden
        /\ final_decision = "ALLOW" /\ exit_code = 0
        /\ exit_status \in {-1, 0}
        /\ pc = "done" =>
              /\ exit_status = 0
              /\ Output("is_frozen") = "false"
              /\ Output("window_type") = "NONE"
              /\ Output("overridden") = "false"
              /\ Output("decision") = "ALLOW"

\* only a malformed freeze_start, behavior block, an actor override that
\* would match: the run completes
C10_Witness ==
    /\ pc = "done" /\ HalfFixedWindow /\ input.freeze_start.k = "garbage"
    /\ Behavior = "block" /\ ActorMatches
    /\ Output("decision") = "ALLOW" /\ exit_status = 0

====
